---- MODULE Spec2Model ----
(***************************************************************************)
(* A model of LGAR-Torch: the dpLGAR.forward simulation loop, the helper   *)
(* dpLGAR.create_surficial_front and the layer-geometry set-up of          *)
(* GlobalParams and LGAR.                                                  *)
(*                                                                         *)
(* Amounts (cm, cm/h, h) are integers in a fixed small unit; the code      *)
(* computes them in float32 tensors, so every statement below is about     *)
(* exact arithmetic.  Python arrays are 0-based: x, runoff and percolation *)
(* are functions over 0..nsteps-1.  The thickness lists are TLA+ sequences *)
(* (1-based): Python index k is sequence index k+1.                        *)
(*                                                                         *)
(* The Layer class (lgartorch/models/physics/layers/Layer.py) is not part  *)
(* of the sources at hand: its methods appear as calls recorded in `calls` *)
(* and their results are arbitrary values of LayerAmounts / BOOLEAN.       *)
(***************************************************************************)
EXTENDS Integers, Sequences, FiniteSets

\* ---------------------------------------------------------------- bounds
MaxSteps == 2            \* cfg.models.nsteps ranges over 1..MaxSteps
MaxSubcycles == 1        \* cfg.models.num_subcycles ranges over 0..MaxSubcycles
MaxSubcycleLength == 1   \* cfg.models.subcycle_length_h ranges over 1..MaxSubcycleLength
MaxRate == 1             \* precipitation and PET rates range over 0..MaxRate
MaxPond == 1             \* cfg.data.ponded_depth_max ranges over 0..MaxPond
MaxAmount == 3           \* arguments of create_surficial_front range over 0..MaxAmount
MaxLayers == 3           \* number of configured soil layers ranges over 1..MaxLayers
MaxThickness == 2        \* a configured layer thickness ranges over 0..MaxThickness
MaxFronts == 2           \* wetting fronts in the stack at construction: 1..MaxFronts

\* Values a Layer method may hand back (water amounts and volumes).
LayerAmounts == {0, 1}

\* Residual tolerance of the mass-balance check (spec.md, section 7).
Tolerance == 0

VARIABLES
    \* --- configuration and input
    nsteps, num_subcycles, subcycle_length_h, ponded_depth_max_cm, x,
    \* --- dpLGAR fields
    starting_volume, ending_volume, ponded_water, runoff, percolation,
    \* --- locals of forward
    pc, i, j, precip, pet, previous_precip, precip_timestep,
    bottom_boundary_flux, ending_volume_sub, precip_sub, pet_sub,
    ponded_depth_sub, percolation_sub, AET_sub, create_surficial_front,
    is_top_layer_saturated, ponded_water_sub, runoff_sub,
    \* --- what the run lets out: Layer calls of the current substep, the
    \* --- exception that ended forward, the records written to the logger
    calls, err, warnings,
    \* --- layer geometry: cfg.data.layer_thickness, GlobalParams, LGAR
    cfg_layer_thickness, constructed,
    cum_layer_thickness, soil_depth_cm, num_layers,
    lgar_layer_thickness_cm, lgar_cum_layer_thickness, lgar_soil_depth_cm,
    \* --- wetting fronts: the count dpLGAR keeps (self.num_wetting_fronts)
    \* --- and the number of fronts the Layer stack holds at the moment
    num_wetting_fronts, wetting_fronts_total

cfgVars == <<nsteps, num_subcycles, subcycle_length_h, ponded_depth_max_cm, x>>
fieldVars == <<starting_volume, ending_volume, ponded_water, runoff, percolation>>
loopVars == <<i, j, precip, pet, previous_precip, precip_timestep,
              bottom_boundary_flux, ending_volume_sub>>
subVars == <<precip_sub, pet_sub, ponded_depth_sub, percolation_sub, AET_sub,
             create_surficial_front, is_top_layer_saturated,
             ponded_water_sub, runoff_sub>>
outVars == <<calls, err, warnings>>
geomVars == <<cfg_layer_thickness, constructed, cum_layer_thickness,
              soil_depth_cm, num_layers, lgar_layer_thickness_cm,
              lgar_cum_layer_thickness, lgar_soil_depth_cm>>
frontVars == <<num_wetting_fronts, wetting_fronts_total>>
vars == <<cfgVars, fieldVars, pc, loopVars, subVars, outVars, geomVars, frontVars>>

\* ------------------------------------------------------- layer geometry

Zeros(n) == [k \in 1..n |-> 0]

\* GlobalParams.initialize_config_parameters, the loop of lines 96-99.
RECURSIVE GlobalParamsCumLoop(_, _, _)
GlobalParamsCumLoop(cum, thickness, k) ==
    IF k > Len(thickness) THEN cum
    ELSE GlobalParamsCumLoop([cum EXCEPT ![k] = cum[k - 1] + thickness[k]],
                             thickness, k + 1)

\* The same loop without the seeding of entry 0 (line 95 left out).
GlobalParamsCumUnseeded(thickness) ==
    GlobalParamsCumLoop(Zeros(Len(thickness)), thickness, 2)

\* GlobalParams.cum_layer_thickness: zeros, entry 0 seeded, then the loop.
GlobalParamsCum(thickness) ==
    GlobalParamsCumLoop([Zeros(Len(thickness)) EXCEPT ![1] = thickness[1]],
                        thickness, 2)

\* LGAR.layer_thickness_cm: the configured list behind a leading 0.
LgarLayerThickness(thickness) == <<0>> \o thickness

\* LGAR.__init__, the loop of lines 90-93.
RECURSIVE LgarCumLoop(_, _, _)
LgarCumLoop(cum, lt, k) ==
    IF k > Len(lt) THEN cum
    ELSE LgarCumLoop([cum EXCEPT ![k] = cum[k - 1] + lt[k]], lt, k + 1)

\* LGAR.cum_layer_thickness: zeros of length n+1, then the loop from index 1.
LgarCum(thickness) ==
    LgarCumLoop(Zeros(Len(thickness) + 1), LgarLayerThickness(thickness), 2)

\* x[-1] of a Python list.
Last(s) == s[Len(s)]

\* All lists of 1..MaxLayers thicknesses.
ThicknessLists ==
    UNION {[1..n -> 0..MaxThickness] : n \in 1..MaxLayers}

\* ------------------------------------------------ helpers of the run

\* create_surficial_front without the look at the previous substep: rain in
\* an ongoing storm would open a new front.
CreateSurficialFrontInStorm(prev_precip, p_sub, ponded) ==
    LET is_it_raining == (p_sub > 0)
        is_there_ponded_water == (ponded = 0)
    IN  is_it_raining /\ is_there_ponded_water

\* dpLGAR.create_surficial_front; ponded is the field self.ponded_water.
CreateSurficialFront(prev_precip, p_sub, ponded) ==
    LET has_previous_precip == (prev_precip = 0)
        is_it_raining == (p_sub > 0)
        is_there_ponded_water == (ponded = 0)
    IN  has_previous_precip /\ is_it_raining /\ is_there_ponded_water

\* The branches with the saturated case passed over in silence (the raise
\* of line 158 replaced by a no-op).
RaisesUnlessSaturated(create_front, saturated, ponded_depth) ==
    IF create_front
    THEN (IF saturated THEN FALSE ELSE TRUE)
    ELSE ponded_depth > 0

\* The branches of forward that raise NotImplementedError (lines 155-166):
\* a new front on a saturated top layer, a new front on an unsaturated
\* one, and no new front with water on the surface.
RaisesNotImplemented(create_front, saturated, ponded_depth) ==
    IF create_front
    THEN (IF saturated THEN TRUE ELSE TRUE)
    ELSE ponded_depth > 0

\* How many fronts the passes of lines 189-195 may take out of a stack of
\* `count` fronts: a merge absorbs a front, the crossing of the domain
\* boundary deletes one (spec.md 4.3.5 and 4.3.7); one front always stays.
FrontsGone(count) == {gone \in {0, 1} : count - gone >= 1}

\* The branch with lines 178 and 179 swapped: ponded_water_sub takes the
\* depth before it is cut down to the threshold.
SplitSurfaceWaterUncapped(ponded_depth, ponded_depth_max) ==
    IF ponded_depth < ponded_depth_max
    THEN [ponded_water_sub |-> ponded_depth,
          runoff_sub |-> 0,
          ponded_depth_sub |-> 0]
    ELSE [ponded_water_sub |-> ponded_depth,
          runoff_sub |-> ponded_depth - ponded_depth_max,
          ponded_depth_sub |-> ponded_depth_max]

\* The branch of lines 168-179: no new front, nothing to infiltrate.
SplitSurfaceWater(ponded_depth, ponded_depth_max) ==
    IF ponded_depth < ponded_depth_max
    THEN [ponded_water_sub |-> ponded_depth,
          runoff_sub |-> 0,
          ponded_depth_sub |-> 0]
    ELSE [ponded_water_sub |-> ponded_depth_max,
          runoff_sub |-> ponded_depth - ponded_depth_max,
          ponded_depth_sub |-> ponded_depth_max]

\* ------------------------------------------------------------ initial states

\* Locals of forward before the call, and nothing let out yet.
ForwardNotStarted ==
    /\ i = 0 /\ j = 0 /\ precip = 0 /\ pet = 0 /\ previous_precip = 0
    /\ precip_timestep = 0 /\ bottom_boundary_flux = 0
    /\ ending_volume_sub = 0
    /\ precip_sub = 0 /\ pet_sub = 0 /\ ponded_depth_sub = 0
    /\ percolation_sub = 0 /\ AET_sub = 0
    /\ create_surficial_front = FALSE /\ is_top_layer_saturated = FALSE
    /\ ponded_water_sub = 0 /\ runoff_sub = 0
    /\ calls = <<>> /\ err = "none" /\ warnings = <<>>

\* GlobalParams as initialize_config_parameters leaves it for a thickness list.
GlobalParamsBuilt(thickness) ==
    /\ cum_layer_thickness = GlobalParamsCum(thickness)
    /\ num_layers = Len(thickness)
    /\ soil_depth_cm = Last(GlobalParamsCum(thickness))

LgarNotBuilt ==
    /\ lgar_layer_thickness_cm = <<>>
    /\ lgar_cum_layer_thickness = <<>>
    /\ lgar_soil_depth_cm = 0

\* dpLGAR.__init__: the fields of lines 95-115 for a given starting volume.
DpLgarConstructed(volume) ==
    /\ starting_volume = volume
    /\ ending_volume = volume
    /\ ponded_water = 0
    /\ runoff = [k \in 0..(nsteps - 1) |-> 0]
    /\ percolation = [k \in 0..(nsteps - 1) |-> 0]

\* dpLGAR.__init__, lines 90-91: the front count is taken from the stack
\* once, at construction.
FrontsCounted(count) ==
    /\ wetting_fronts_total = count
    /\ num_wetting_fronts = count

\* A constructed dpLGAR and an input x, before forward(x) is called.
Init ==
    /\ nsteps \in 1..MaxSteps
    /\ num_subcycles \in 0..MaxSubcycles
    /\ subcycle_length_h \in 1..MaxSubcycleLength
    /\ ponded_depth_max_cm \in 0..MaxPond
    /\ x \in [0..(nsteps - 1) -> (0..MaxRate) \X (0..MaxRate)]
    /\ \E volume \in LayerAmounts : DpLgarConstructed(volume)
    /\ \E count \in 1..MaxFronts : FrontsCounted(count)
    /\ cfg_layer_thickness = <<1>>
    /\ constructed = {"GlobalParams"}
    /\ GlobalParamsBuilt(cfg_layer_thickness)
    /\ LgarNotBuilt
    /\ ForwardNotStarted
    /\ pc = "start"

\* ------------------------------------------------------------ forward

\* Lines 131-136: the forcing is read from x[0]; sft_coupled is False
\* (GlobalParams line 64), so the frozen-soil call is not made.
ForwardEnter ==
    /\ pc = "start"
    /\ precip' = x[0][1]
    /\ pet' = x[0][2]
    /\ previous_precip' = 0
    /\ i' = 0
    /\ pc' = "timestep"
    /\ UNCHANGED <<cfgVars, fieldVars, j, precip_timestep,
                   bottom_boundary_flux, ending_volume_sub, subVars,
                   outVars, geomVars, frontVars>>

\* Lines 137-140: one more outer timestep.
TimestepBegin ==
    /\ pc = "timestep"
    /\ i < nsteps
    /\ precip_timestep' = 0
    /\ bottom_boundary_flux' = 0
    /\ ending_volume_sub' = ending_volume
    /\ j' = 0
    /\ pc' = "substep"
    /\ UNCHANGED <<cfgVars, fieldVars, i, precip, pet, previous_precip,
                   subVars, outVars, geomVars, frontVars>>

\* Line 208: the loop is over; self.volrunoff_timestep_cm was never set
\* (line 106 is commented out), so the read raises AttributeError.
ForwardReturn ==
    /\ pc = "timestep"
    /\ i = nsteps
    /\ err' = "AttributeError"
    /\ pc' = "raised"
    /\ UNCHANGED <<cfgVars, fieldVars, loopVars, subVars, calls, warnings,
                   geomVars, frontVars>>

\* Lines 141-152: forcing amounts of the substep, the front decision, the
\* free-drainage front and the saturation of the top layer.
SubstepBegin ==
    /\ pc = "substep"
    /\ j < num_subcycles
    /\ precip_sub' = precip * subcycle_length_h
    /\ pet_sub' = pet * subcycle_length_h
    /\ ponded_depth_sub' = precip_sub' + ponded_water
    /\ percolation_sub' = 0
    /\ AET_sub' = 0
    /\ create_surficial_front' =
           CreateSurficialFront(previous_precip, precip_sub', ponded_water)
    /\ is_top_layer_saturated' \in BOOLEAN
    /\ calls' = <<"calc_wetting_front_free_drainage", "is_saturated">>
    /\ pc' = "aet"
    /\ UNCHANGED <<cfgVars, fieldVars, loopVars, ponded_water_sub,
                   runoff_sub, err, warnings, geomVars, frontVars>>

\* Lines 141 and 206: the substeps of the timestep are over.
TimestepEnd ==
    /\ pc = "substep"
    /\ j = num_subcycles
    /\ i' = i + 1
    /\ pc' = "timestep"
    /\ UNCHANGED <<cfgVars, fieldVars, j, precip, pet, previous_precip,
                   precip_timestep, bottom_boundary_flux, ending_volume_sub,
                   subVars, outVars, geomVars, frontVars>>

\* Lines 153-154: AET is asked of the top layer only under a PET demand.
CalcAet ==
    /\ pc = "aet"
    /\ IF pet_sub > 0
       THEN /\ AET_sub' \in 0..pet_sub
            /\ calls' = Append(calls, "calc_aet")
       ELSE UNCHANGED <<AET_sub, calls>>
    /\ pc' = "branch"
    /\ UNCHANGED <<cfgVars, fieldVars, loopVars, precip_sub, pet_sub,
                   ponded_depth_sub, percolation_sub,
                   create_surficial_front, is_top_layer_saturated,
                   ponded_water_sub, runoff_sub, err, warnings, geomVars, frontVars>>

\* Lines 155-166: the three branches that raise NotImplementedError.
RaiseUnimplementedBranch ==
    /\ pc = "branch"
    /\ RaisesNotImplemented(create_surficial_front,
                            is_top_layer_saturated, ponded_depth_sub)
    /\ err' = "NotImplementedError"
    /\ pc' = "raised"
    /\ UNCHANGED <<cfgVars, fieldVars, loopVars, subVars, calls, warnings,
                   geomVars, frontVars>>

\* Lines 167-180: ponding against the threshold, runoff of the timestep.
AccumulateRunoff ==
    /\ pc = "branch"
    /\ ~RaisesNotImplemented(create_surficial_front,
                            is_top_layer_saturated, ponded_depth_sub)
    /\ LET split == SplitSurfaceWater(ponded_depth_sub, ponded_depth_max_cm)
       IN  /\ ponded_water_sub' = split.ponded_water_sub
           /\ runoff_sub' = split.runoff_sub
           /\ ponded_depth_sub' = split.ponded_depth_sub
           /\ runoff' = [runoff EXCEPT ![i] = runoff[i] + split.runoff_sub]
    /\ pc' = "move"
    /\ UNCHANGED <<cfgVars, starting_volume, ending_volume, ponded_water,
                   percolation, loopVars, precip_sub, pet_sub,
                   percolation_sub, AET_sub, create_surficial_front,
                   is_top_layer_saturated, outVars, geomVars, frontVars>>

\* Lines 181-188: the bottom layer moves the fronts and returns percolation.
MoveWettingFronts ==
    /\ pc = "move"
    /\ percolation_sub' \in LayerAmounts
    /\ calls' = Append(calls, "move_wetting_fronts")
    /\ pc' = "merge"
    /\ UNCHANGED <<cfgVars, fieldVars, loopVars, precip_sub, pet_sub,
                   ponded_depth_sub, AET_sub, create_surficial_front,
                   is_top_layer_saturated, ponded_water_sub, runoff_sub,
                   err, warnings, geomVars, frontVars>>

\* Lines 189-198: merge, cross the layer boundary, merge, cross the domain
\* boundary (its flux is accumulated), fix dry-over-wet, update psi.  The
\* passes may take a front out of the stack; self.num_wetting_fronts is
\* not assigned.
MergeAndCross ==
    /\ pc = "merge"
    /\ \E flux \in LayerAmounts :
           /\ bottom_boundary_flux' = bottom_boundary_flux + flux
           /\ percolation_sub' = bottom_boundary_flux + flux
    /\ calls' = calls \o <<"merge_wetting_fronts",
                           "wetting_fronts_cross_layer_boundary",
                           "merge_wetting_fronts",
                           "wetting_front_cross_domain_boundary",
                           "fix_dry_over_wet_fronts",
                           "update_psi">>
    /\ \E gone \in FrontsGone(wetting_fronts_total) :
           wetting_fronts_total' = wetting_fronts_total - gone
    /\ pc' = "finish"
    /\ UNCHANGED <<cfgVars, fieldVars, i, j, precip, pet, previous_precip,
                   precip_timestep, ending_volume_sub, precip_sub, pet_sub,
                   ponded_depth_sub, AET_sub, create_surficial_front,
                   is_top_layer_saturated, ponded_water_sub, runoff_sub,
                   err, warnings, geomVars, num_wetting_fronts>>

\* Lines 199-203: dz/dt, precipitation of the timestep, the ending volume,
\* the routed runoff (its value is dropped), previous_precip.
FinishSubstep ==
    /\ pc = "finish"
    /\ precip_timestep' = precip_timestep + precip_sub
    /\ ending_volume_sub' \in LayerAmounts
    /\ previous_precip' = precip_sub
    /\ calls' = calls \o <<"calc_dzdt", "mass_balance", "giuh_runoff">>
    /\ pc' = "update"
    /\ UNCHANGED <<cfgVars, fieldVars, i, j, precip, pet,
                   bottom_boundary_flux, subVars, err, warnings, geomVars, frontVars>>

\* Line 204: update_states(self, i) is called without i, a TypeError (and
\* its body, line 251, would raise NotImplementedError).
UpdateStates ==
    /\ pc = "update"
    /\ calls' = Append(calls, "update_states")
    /\ err' = "TypeError"
    /\ pc' = "raised"
    /\ UNCHANGED <<cfgVars, fieldVars, loopVars, subVars, warnings, geomVars, frontVars>>

Next ==
    \/ ForwardEnter
    \/ TimestepBegin
    \/ ForwardReturn
    \/ SubstepBegin
    \/ TimestepEnd
    \/ CalcAet
    \/ RaiseUnimplementedBranch
    \/ AccumulateRunoff
    \/ MoveWettingFronts
    \/ MergeAndCross
    \/ FinishSubstep
    \/ UpdateStates

Spec == Init /\ [][Next]_vars

\* ------------------------------------------- create_surficial_front alone

\* A dpLGAR object whose field ponded_water, and a pair of arguments, are
\* any amounts of 0..MaxAmount: the method is called outside forward.
InitFront ==
    /\ nsteps = 1 /\ num_subcycles = 1 /\ subcycle_length_h = 1
    /\ ponded_depth_max_cm = 0
    /\ x = [k \in 0..0 |-> <<0, 0>>]
    /\ starting_volume = 0 /\ ending_volume = 0
    /\ ponded_water \in 0..MaxAmount
    /\ runoff = [k \in 0..0 |-> 0]
    /\ percolation = [k \in 0..0 |-> 0]
    /\ i = 0 /\ j = 0 /\ precip = 0 /\ pet = 0
    /\ previous_precip \in 0..MaxAmount
    /\ precip_timestep = 0 /\ bottom_boundary_flux = 0
    /\ ending_volume_sub = 0
    /\ precip_sub \in 0..MaxAmount
    /\ pet_sub = 0 /\ ponded_depth_sub = 0
    /\ percolation_sub = 0 /\ AET_sub = 0
    /\ create_surficial_front = FALSE /\ is_top_layer_saturated = FALSE
    /\ ponded_water_sub = 0 /\ runoff_sub = 0
    /\ calls = <<>> /\ err = "none" /\ warnings = <<>>
    /\ cfg_layer_thickness = <<1>>
    /\ constructed = {"GlobalParams"}
    /\ GlobalParamsBuilt(cfg_layer_thickness)
    /\ LgarNotBuilt
    /\ FrontsCounted(1)
    /\ pc = "csf_call"

\* Lines 219-232: one call of create_surficial_front(previous_precip, precip_sub).
CallCreateSurficialFront ==
    /\ pc = "csf_call"
    /\ create_surficial_front' =
           CreateSurficialFront(previous_precip, precip_sub, ponded_water)
    /\ pc' = "csf_done"
    /\ UNCHANGED <<cfgVars, fieldVars, loopVars, precip_sub, pet_sub,
                   ponded_depth_sub, percolation_sub, AET_sub,
                   is_top_layer_saturated, ponded_water_sub, runoff_sub,
                   outVars, geomVars, frontVars>>

NextFront == CallCreateSurficialFront

SpecFront == InitFront /\ [][NextFront]_vars

\* ------------------------------------------------- layer geometry alone

\* A configuration with any thickness list; neither class is built yet.
InitConfig ==
    /\ nsteps = 1 /\ num_subcycles = 1 /\ subcycle_length_h = 1
    /\ ponded_depth_max_cm = 0
    /\ x = [k \in 0..0 |-> <<0, 0>>]
    /\ DpLgarConstructed(0)
    /\ ForwardNotStarted
    /\ cfg_layer_thickness \in ThicknessLists
    /\ constructed = {}
    /\ cum_layer_thickness = <<>> /\ soil_depth_cm = 0 /\ num_layers = 0
    /\ LgarNotBuilt
    /\ FrontsCounted(1)
    /\ pc = "config"

\* GlobalParams.initialize_config_parameters, lines 89-101.
BuildGlobalParams ==
    /\ pc = "config"
    /\ "GlobalParams" \notin constructed
    /\ cum_layer_thickness' = GlobalParamsCum(cfg_layer_thickness)
    /\ num_layers' = Len(cfg_layer_thickness)
    /\ soil_depth_cm' = Last(cum_layer_thickness')
    /\ constructed' = constructed \cup {"GlobalParams"}
    /\ UNCHANGED <<cfgVars, fieldVars, pc, loopVars, subVars, outVars,
                   cfg_layer_thickness, lgar_layer_thickness_cm,
                   lgar_cum_layer_thickness, lgar_soil_depth_cm, frontVars>>

\* LGAR.__init__, lines 87-95.
BuildLgar ==
    /\ pc = "config"
    /\ "LGAR" \notin constructed
    /\ lgar_layer_thickness_cm' = LgarLayerThickness(cfg_layer_thickness)
    /\ lgar_cum_layer_thickness' = LgarCum(cfg_layer_thickness)
    /\ lgar_soil_depth_cm' = Last(lgar_cum_layer_thickness')
    /\ constructed' = constructed \cup {"LGAR"}
    /\ UNCHANGED <<cfgVars, fieldVars, pc, loopVars, subVars, outVars,
                   cfg_layer_thickness, cum_layer_thickness, soil_depth_cm,
                   num_layers, frontVars>>

NextConfig == BuildGlobalParams \/ BuildLgar

SpecConfig == InitConfig /\ [][NextConfig]_vars

\* ------------------------------------- the no-infiltration branch alone

\* Timestep i of a run with earlier runoff in the array, at line 168 with
\* any ponded depth of 0..MaxAmount and any threshold of 0..MaxPond.
InitSplit ==
    /\ nsteps \in 1..MaxSteps
    /\ num_subcycles = 1 /\ subcycle_length_h = 1
    /\ ponded_depth_max_cm \in 0..MaxPond
    /\ x = [k \in 0..(nsteps - 1) |-> <<0, 0>>]
    /\ starting_volume = 0 /\ ending_volume = 0
    /\ ponded_water = 0
    /\ runoff \in [0..(nsteps - 1) -> LayerAmounts]
    /\ percolation = [k \in 0..(nsteps - 1) |-> 0]
    /\ i \in 0..(nsteps - 1)
    /\ j = 0 /\ precip = 0 /\ pet = 0 /\ previous_precip = 0
    /\ precip_timestep = 0 /\ bottom_boundary_flux = 0
    /\ ending_volume_sub = 0
    /\ precip_sub = 0 /\ pet_sub = 0
    /\ ponded_depth_sub \in 0..MaxAmount
    /\ percolation_sub = 0 /\ AET_sub = 0
    /\ create_surficial_front = FALSE /\ is_top_layer_saturated = FALSE
    /\ ponded_water_sub = 0 /\ runoff_sub = 0
    /\ calls = <<>> /\ err = "none" /\ warnings = <<>>
    /\ cfg_layer_thickness = <<1>>
    /\ constructed = {"GlobalParams"}
    /\ GlobalParamsBuilt(cfg_layer_thickness)
    /\ LgarNotBuilt
    /\ FrontsCounted(1)
    /\ pc = "split_call"

\* Lines 168-180: the split against the threshold and the accumulation.
SplitAndAccumulate ==
    /\ pc = "split_call"
    /\ LET split == SplitSurfaceWater(ponded_depth_sub, ponded_depth_max_cm)
       IN  /\ ponded_water_sub' = split.ponded_water_sub
           /\ runoff_sub' = split.runoff_sub
           /\ ponded_depth_sub' = split.ponded_depth_sub
           /\ runoff' = [runoff EXCEPT ![i] = runoff[i] + split.runoff_sub]
    /\ pc' = "split_done"
    /\ UNCHANGED <<cfgVars, starting_volume, ending_volume, ponded_water,
                   percolation, loopVars, precip_sub, pet_sub,
                   percolation_sub, AET_sub, create_surficial_front,
                   is_top_layer_saturated, outVars, geomVars, frontVars>>

NextSplit == SplitAndAccumulate

SpecSplit == InitSplit /\ [][NextSplit]_vars

\* ============================================================ claims

Called(op) == \E k \in 1..Len(calls) : calls[k] = op

\* C1: create_surficial_front(previous_precip, precip_sub) is true only if
\* the previous substep had no precipitation, the current substep has a
\* positive amount and no ponded water is held; it is true whenever the
\* three hold, and false during an ongoing storm (previous_precip > 0).
C1_CreateSurficialFront ==
    pc = "csf_done" =>
        /\ create_surficial_front => previous_precip = 0
        /\ create_surficial_front => precip_sub > 0
        /\ create_surficial_front => ponded_water = 0
        /\ (previous_precip = 0 /\ precip_sub > 0 /\ ponded_water = 0)
               => create_surficial_front
        /\ previous_precip > 0 => ~create_surficial_front

\* C1 witness: rain in an ongoing storm on a dry surface, answered "no".
C1_Witness ==
    /\ pc = "csf_done"
    /\ previous_precip > 0 /\ precip_sub > 0 /\ ponded_water = 0
    /\ ~create_surficial_front

\* C2: a substep that reaches branch resolution with a new surface front to
\* create (top layer saturated or not), or with no new front and water on
\* the surface, ends forward there with NotImplementedError: no Layer
\* operation is issued and the runoff is not touched; once forward has
\* raised, nothing happens any more.
C2_UnimplementedBranchStops ==
    [][ /\ (pc = "branch" /\ (create_surficial_front \/ ponded_depth_sub > 0))
            => /\ pc' = "raised"
               /\ err' = "NotImplementedError"
               /\ calls' = calls
               /\ runoff' = runoff
               /\ percolation' = percolation
        /\ pc = "raised" => UNCHANGED vars ]_vars

\* C2 witness: forward has stopped in the new-front branch.
C2_Witness ==
    /\ pc = "raised"
    /\ err = "NotImplementedError"
    /\ create_surficial_front
    /\ ~Called("move_wetting_fronts")

ZeroForcing == \A k \in 0..(nsteps - 1) : x[k] = <<0, 0>>

\* C3: without rain and without PET, forward runs every timestep (each of
\* its num_subcycles substeps) to the end, never asks for AET, and leaves
\* runoff, percolation and AET at zero.
C3_ZeroForcingCompletes ==
    (ZeroForcing /\ num_subcycles >= 1) =>
        /\ pc # "raised"
        /\ ~Called("calc_aet")
        /\ AET_sub = 0
        /\ \A k \in 0..(nsteps - 1) : runoff[k] = 0 /\ percolation[k] = 0

\* Precipitation amount of timestep 0 under the rate x[0].
PrecipOfTimestep == x[0][1] * subcycle_length_h * num_subcycles

\* C4: constant precipitation on a saturated top layer, more than the
\* ponding capacity holds, ends its timestep with
\* runoff = precipitation amount - ponded_depth_max_cm.
C4_SaturationRunoff ==
    ( /\ pc = "raised"
      /\ num_subcycles >= 1
      /\ \A k \in 0..(nsteps - 1) : x[k][1] = x[0][1]
      /\ is_top_layer_saturated
      /\ PrecipOfTimestep > ponded_depth_max_cm )
        => runoff[0] = PrecipOfTimestep - ponded_depth_max_cm

\* The operations of a substep after branch resolution, in the order C5 gives.
C5_Order ==
    <<"move_wetting_fronts",
      "merge_wetting_fronts", "wetting_fronts_cross_layer_boundary",
      "merge_wetting_fronts", "wetting_fronts_cross_layer_boundary",
      "wetting_front_cross_domain_boundary",
      "fix_dry_over_wet_fronts", "update_psi", "calc_dzdt",
      "mass_balance", "giuh_runoff">>

InOrderList(op) == \E k \in 1..Len(C5_Order) : C5_Order[k] = op

\* C5: a substep that passes branch resolution issues move_wetting_fronts,
\* two rounds of (merge, cross layer boundary), the domain-boundary
\* crossing, fix_dry_over_wet_fronts, update_psi, calc_dzdt, mass_balance,
\* giuh_runoff in this order, and last persists ponded_water and
\* previous_precip.
C5_SubstepOrder ==
    /\ pc = "update" => SelectSeq(calls, InOrderList) = C5_Order
    /\ Called("update_states") =>
           /\ err = "none"
           /\ ponded_water = ponded_water_sub
           /\ previous_precip = precip_sub

\* C6: the forcing in use in timestep i is the i-th pair of x: the rates
\* held while timestep i runs are precip[i] and PET[i], and each of its
\* substeps computes precip_sub = precip[i] * subcycle_length_h and
\* pet_sub = PET[i] * subcycle_length_h.
C6_ForcingOfTimestep ==
    /\ pc \in {"substep", "aet", "branch", "move", "merge", "finish", "update"}
           => (precip = x[i][1] /\ pet = x[i][2])
    /\ pc \in {"aet", "branch", "move", "merge", "finish", "update"}
           => /\ precip_sub = x[i][1] * subcycle_length_h
              /\ pet_sub = x[i][2] * subcycle_length_h

\* C7: after the last step of substep k the run stands at the head of
\* substep k+1 holding ponded_water = ponded_water_sub and
\* previous_precip = precip_sub of substep k.
C7_PersistAcrossSubsteps ==
    Called("update_states") =>
        /\ pc = "substep"
        /\ ponded_water = ponded_water_sub
        /\ previous_precip = precip_sub

\* C8: when forward is through with a substep of timestep i, percolation[i]
\* holds the domain-boundary flux accumulated in timestep i so far.
C8_PercolationOutput ==
    Called("update_states") => percolation[i] = bottom_boundary_flux

Abs(n) == IF n < 0 THEN -n ELSE n

\* ending_volume - starting_volume - (precip_in - runoff - AET - percolation)
Residual ==
    ending_volume_sub - starting_volume
        - (precip_timestep - runoff[i] - AET_sub - percolation_sub)

Reported(what) ==
    \/ err = what
    \/ \E k \in 1..Len(warnings) : warnings[k] = what

\* C9: once mass_balance is recomputed and the substep is over, a residual
\* beyond the tolerance has been reported as a MassBalanceViolation.
C9_MassBalanceReported ==
    (Called("update_states") /\ Abs(Residual) > Tolerance)
        => Reported("MassBalanceViolation")

\* Sum of the first k thicknesses.
RECURSIVE SumFirst(_, _)
SumFirst(thickness, k) ==
    IF k = 0 THEN 0 ELSE SumFirst(thickness, k - 1) + thickness[k]

StrictlyIncreasing(s) == \A k \in 1..(Len(s) - 1) : s[k] < s[k + 1]

\* C10: the cumulative depths are the running sums of the thicknesses,
\* strictly increasing when every thickness is > 0, and soil_depth_cm is
\* their total; LGAR holds the same sums behind a leading 0 and the same
\* soil_depth_cm.
C10_CumulativeDepths ==
    LET t == cfg_layer_thickness
        n == Len(cfg_layer_thickness)
    IN  /\ "GlobalParams" \in constructed =>
               /\ Len(cum_layer_thickness) = n
               /\ \A k \in 1..n : cum_layer_thickness[k] = SumFirst(t, k)
               /\ soil_depth_cm = SumFirst(t, n)
               /\ (\A k \in 1..n : t[k] > 0)
                      => StrictlyIncreasing(cum_layer_thickness)
        /\ "LGAR" \in constructed =>
               /\ Len(lgar_cum_layer_thickness) = n + 1
               /\ \A k \in 0..n :
                      lgar_cum_layer_thickness[k + 1] = SumFirst(t, k)
               /\ lgar_soil_depth_cm = SumFirst(t, n)
               /\ (\A k \in 1..n : t[k] > 0)
                      => StrictlyIncreasing(lgar_cum_layer_thickness)
        /\ constructed = {"GlobalParams", "LGAR"} =>
               /\ lgar_cum_layer_thickness = <<0>> \o cum_layer_thickness
               /\ lgar_soil_depth_cm = soil_depth_cm

\* C10 witness: both classes built from three layers of differing, positive
\* thickness.
C10_Witness ==
    /\ constructed = {"GlobalParams", "LGAR"}
    /\ Len(cfg_layer_thickness) = MaxLayers
    /\ \A k \in 1..Len(cfg_layer_thickness) : cfg_layer_thickness[k] > 0
    /\ cfg_layer_thickness[1] # cfg_layer_thickness[2]
    /\ soil_depth_cm > cfg_layer_thickness[1]

\* C11: the front count handed to move_wetting_fronts is the number of
\* fronts in the stack at that moment, and it is recomputed once the merge
\* and crossing passes have changed the shape of the stack, so that the
\* next call gets the current count again.
C11_FrontCountCurrent ==
    /\ pc = "move" => num_wetting_fronts = wetting_fronts_total
    /\ (pc \in {"finish", "update"} \/ Called("update_states"))
           => num_wetting_fronts = wetting_fronts_total

\* C12: in the branch without a new front and without infiltration the
\* surface water is split without loss: runoff_sub + ponded_water_sub is the
\* incoming ponded_depth_sub; runoff_sub is 0 below the threshold and
\* ponded_depth_sub - ponded_depth_max_cm otherwise; ponded_water_sub never
\* exceeds the threshold; runoff[i] grows by runoff_sub and no other entry
\* of runoff changes.
C12_SplitWithoutLoss ==
    [][ pc = "split_call" =>
          /\ runoff_sub' + ponded_water_sub' = ponded_depth_sub
          /\ ponded_depth_sub < ponded_depth_max_cm => runoff_sub' = 0
          /\ ponded_depth_sub >= ponded_depth_max_cm
                 => runoff_sub' = ponded_depth_sub - ponded_depth_max_cm
          /\ ponded_water_sub' <= ponded_depth_max_cm
          /\ runoff'[i] = runoff[i] + runoff_sub'
          /\ \A k \in 0..(nsteps - 1) : k # i => runoff'[k] = runoff[k] ]_vars

\* C12 witness: more water than the threshold holds, in a run with another
\* timestep whose runoff is already there.
C12_Witness ==
    /\ pc = "split_done"
    /\ ponded_depth_max_cm > 0
    /\ runoff_sub > 0
    /\ ponded_water_sub = ponded_depth_max_cm
    /\ \E k \in 0..(nsteps - 1) : k # i /\ runoff[k] > 0

====
